---- MODULE Spec2Model ----
(***************************************************************************)
(* Model of src/deepinfra.py: a bounded-concurrency batch of fetch_proverb *)
(* coroutines that append to the module-level list generated_proverbs,     *)
(* save_progress() which rewrites OUTPUT_FILE with list(set(...)), and     *)
(* main() which resumes from OUTPUT_FILE.                                  *)
(*                                                                         *)
(* asyncio runs every coroutine on one thread: a coroutine runs without    *)
(* interruption from one await that really suspends to the next.  The only *)
(* such awaits are the semaphore acquisition (line 6) and the remote call  *)
(* (line 8); each action below is one such uninterrupted stretch.          *)
(***************************************************************************)
EXTENDS Integers, Sequences, FiniteSets, TLC

\* ---- bounds of the model ------------------------------------------------
MaxT == 3
MaxC == 2
MaxS == 2
NumItems == 3

AllItems == <<"a", "b", "c", "d", "e", "f", "g">>
Items == {AllItems[i] : i \in 1..NumItems}

VARIABLES
    T,                   \* TOTAL_PROVERBS
    C,                   \* CONCURRENCY_LIMIT
    S,                   \* SAVE_INTERVAL
    vocab,               \* the texts the remote generator can return
    file,                \* OUTPUT_FILE on disk
    pc,                  \* position of main()
    generated_proverbs,  \* the module-level list (line 3)
    semaphore,           \* value of the asyncio.Semaphore (line 37)
    tasks,               \* position of every fetch_proverb coroutine
    pbar,                \* tqdm counter: sum of the update(1) calls
    requests,            \* number of remote calls issued by this process
    flushes,             \* log of the save_progress() calls of this process
    start_file           \* OUTPUT_FILE as it was when this process started

vars == <<T, C, S, vocab, file, pc, generated_proverbs, semaphore, tasks,
          pbar, requests, flushes, start_file>>

config == <<T, C, S, vocab>>

\* ---- values ---------------------------------------------------------------
\* OUTPUT_FILE: missing, holding a JSON list, or holding text json.load rejects
AbsentFile == [kind |-> "absent", data |-> <<>>]
CorruptFile == [kind |-> "corrupt", data |-> <<>>]
JsonFile(list) == [kind |-> "json", data |-> list]

Range(list) == {list[i] : i \in 1..Len(list)}

NoDup(list) == \A i, j \in 1..Len(list) : i # j => list[i] # list[j]

\* every ordering of a set: the lists list(set(...)) can produce
ListsOf(s) == {q \in [1..Cardinality(s) -> s] : NoDup(q)}

\* what the awaited remote call can resolve to: a completion whose
\* message.content is text (possibly padded with whitespace), a response
\* from which line 17 cannot take a text, or an exception of the call
Responses(texts) ==
    {[kind |-> "ok", pad |-> p, text |-> x] : p \in BOOLEAN, x \in texts}
    \cup {[kind |-> "malformed", pad |-> FALSE, text |-> ""],
          [kind |-> "error", pad |-> FALSE, text |-> ""]}

\* line 17: content.strip() removes the padding and keeps the text
Strip(r) == r.text

\* ---- save_progress (lines 30-34) -------------------------------------------
SaveProgressNoDedup(list) == {JsonFile(list)}

\* the file contents a completed save_progress() can leave: list(set(list))
\* in whatever order the set iterates
SaveProgress(list) == {JsonFile(q) : q \in ListsOf(Range(list))}

FlushRecord(written, list, done, final) ==
    [len |-> Len(list), done |-> done, items |-> Range(written.data),
     count |-> Len(written.data), final |-> final]

\* ---- main, start-up (lines 37-53) ------------------------------------------
LoadedIgnored(f) == <<>>

\* lines 41-43: the list json.load returns, or the initial [] of line 3
Loaded(f) == IF f.kind = "json" THEN f.data ELSE <<>>

RemainingIgnoresCheckpoint(total, list) == total

\* line 46
Remaining(total, list) == total - Len(list)

AlreadyCompleteStrict(remaining) == remaining < 0

\* line 47
AlreadyComplete(remaining) == remaining <= 0

StartupIgnoresUnreadable ==
    /\ pc = "start"
    /\ semaphore' = C
    /\ generated_proverbs' = Loaded(file)
    /\ IF AlreadyComplete(Remaining(T, Loaded(file)))
         THEN pc' = "complete" /\ tasks' = <<>>
         ELSE /\ pc' = "gather"
              /\ tasks' = [i \in 1..Remaining(T, Loaded(file)) |-> "waiting"]
    /\ UNCHANGED <<config, file, pbar, requests, flushes, start_file>>

Startup ==
    /\ pc = "start"
    /\ semaphore' = C
    /\ IF file.kind = "corrupt"
         THEN \* json.load raises: main() ends with the exception
              /\ pc' = "aborted"
              /\ UNCHANGED <<generated_proverbs, tasks>>
         ELSE LET loaded == Loaded(file)
                  remaining == Remaining(T, loaded)
              IN  /\ generated_proverbs' = loaded
                  /\ IF AlreadyComplete(remaining)
                       THEN /\ pc' = "complete"
                            /\ tasks' = <<>>
                       ELSE /\ pc' = "gather"
                            /\ tasks' = [i \in 1..remaining |-> "waiting"]
    /\ UNCHANGED <<config, file, pbar, requests, flushes, start_file>>

\* ---- fetch_proverb (lines 5-28) ---------------------------------------------
CanAcquireAlways(value) == TRUE

\* asyncio.Semaphore: acquire() goes through only while the value is positive
CanAcquire(value) == value > 0

\* lines 6-8: the coroutine enters the semaphore and issues the remote call
Admit(t) ==
    /\ pc = "gather"
    /\ tasks[t] = "waiting"
    /\ CanAcquire(semaphore)
    /\ semaphore' = semaphore - 1
    /\ tasks' = [tasks EXCEPT ![t] = "inflight"]
    /\ requests' = requests + 1
    /\ UNCHANGED <<config, file, pc, generated_proverbs, pbar, flushes,
                   start_file>>

SaveDueOffByOne(list, interval) == (Len(list) + 1) % interval = 0

\* line 23
SaveDue(list, interval) == Len(list) % interval = 0

FetchSuccessKeepsUnique(t, r) ==
    /\ pc = "gather"
    /\ tasks[t] = "inflight"
    /\ r.kind = "ok"
    /\ pbar' = pbar + 1
    /\ IF SaveDue(Append(generated_proverbs, Strip(r)), S)
         THEN \E written \in SaveProgress(Append(generated_proverbs, Strip(r))) :
                /\ generated_proverbs' = written.data
                /\ file' = written
                /\ flushes' = Append(flushes,
                       FlushRecord(written, Append(generated_proverbs, Strip(r)),
                                   pbar', FALSE))
         ELSE /\ generated_proverbs' = Append(generated_proverbs, Strip(r))
              /\ UNCHANGED <<file, flushes>>
    /\ semaphore' = semaphore + 1
    /\ tasks' = [tasks EXCEPT ![t] = "returned"]
    /\ UNCHANGED <<config, pc, requests, start_file>>

\* lines 17-26 and the exit of the async with: the call returned a text
FetchSuccess(t, r) ==
    /\ pc = "gather"
    /\ tasks[t] = "inflight"
    /\ r.kind = "ok"
    /\ generated_proverbs' = Append(generated_proverbs, Strip(r))
    /\ pbar' = pbar + 1
    /\ IF SaveDue(generated_proverbs', S)
         THEN \E written \in SaveProgress(generated_proverbs') :
                /\ file' = written
                /\ flushes' = Append(flushes,
                       FlushRecord(written, generated_proverbs', pbar', FALSE))
         ELSE UNCHANGED <<file, flushes>>
    /\ semaphore' = semaphore + 1
    /\ tasks' = [tasks EXCEPT ![t] = "returned"]
    /\ UNCHANGED <<config, pc, requests, start_file>>

FetchFailAppends(t, r) ==
    /\ pc = "gather"
    /\ tasks[t] = "inflight"
    /\ r.kind # "ok"
    /\ generated_proverbs' = Append(generated_proverbs, r.text)
    /\ semaphore' = semaphore + 1
    /\ tasks' = [tasks EXCEPT ![t] = "none"]
    /\ UNCHANGED <<config, file, pc, pbar, requests, flushes, start_file>>

FetchFailCountsProgress(t, r) ==
    /\ pc = "gather"
    /\ tasks[t] = "inflight"
    /\ r.kind # "ok"
    /\ pbar' = pbar + 1
    /\ semaphore' = semaphore + 1
    /\ tasks' = [tasks EXCEPT ![t] = "none"]
    /\ UNCHANGED <<config, file, pc, generated_proverbs, requests, flushes,
                   start_file>>

FetchFailKeepsSlot(t, r) ==
    /\ pc = "gather"
    /\ tasks[t] = "inflight"
    /\ r.kind # "ok"
    /\ tasks' = [tasks EXCEPT ![t] = "none"]
    /\ UNCHANGED <<config, file, pc, generated_proverbs, semaphore, pbar,
                   requests, flushes, start_file>>

\* lines 27-28 and the exit of the async with: the call, or line 17, raised
FetchFail(t, r) ==
    /\ pc = "gather"
    /\ tasks[t] = "inflight"
    /\ r.kind # "ok"
    /\ semaphore' = semaphore + 1
    /\ tasks' = [tasks EXCEPT ![t] = "none"]
    /\ UNCHANGED <<config, file, pc, generated_proverbs, pbar, requests,
                   flushes, start_file>>

\* ---- main, shutdown (lines 53-57) -------------------------------------------
Resolved(st) == st \in {"returned", "none"}

FinishNoSave ==
    /\ pc = "gather"
    /\ \A t \in DOMAIN tasks : Resolved(tasks[t])
    /\ pc' = "done"
    /\ UNCHANGED <<config, file, generated_proverbs, semaphore, tasks, pbar,
                   requests, flushes, start_file>>

\* gather returns once every coroutine returned; then the final save
Finish ==
    /\ pc = "gather"
    /\ \A t \in DOMAIN tasks : Resolved(tasks[t])
    /\ pc' = "done"
    /\ \E written \in SaveProgress(generated_proverbs) :
         /\ file' = written
         /\ flushes' = Append(flushes,
                FlushRecord(written, generated_proverbs, pbar, TRUE))
    /\ UNCHANGED <<config, generated_proverbs, semaphore, tasks, pbar,
                   requests, start_file>>

\* ---- the process dies (kill, power loss) ------------------------------------
\* while every coroutine is suspended: nothing is being written
CrashWhileAwaiting ==
    /\ pc = "gather"
    /\ pc' = "crashed"
    /\ UNCHANGED <<config, file, generated_proverbs, semaphore, tasks, pbar,
                   requests, flushes, start_file>>

\* inside the save_progress() of line 24, after open(OUTPUT_FILE, "w") of
\* line 33 truncated the file and before json.dump's text reached it
CrashInSave(t, r) ==
    /\ pc = "gather"
    /\ tasks[t] = "inflight"
    /\ r.kind = "ok"
    /\ generated_proverbs' = Append(generated_proverbs, Strip(r))
    /\ pbar' = pbar + 1
    /\ SaveDue(generated_proverbs', S)
    /\ file' = CorruptFile
    /\ pc' = "crashed"
    /\ UNCHANGED <<config, semaphore, tasks, requests, flushes, start_file>>

\* the same inside the save_progress() of line 56
CrashInFinalSave ==
    /\ pc = "gather"
    /\ \A t \in DOMAIN tasks : Resolved(tasks[t])
    /\ file' = CorruptFile
    /\ pc' = "crashed"
    /\ UNCHANGED <<config, generated_proverbs, semaphore, tasks, pbar,
                   requests, flushes, start_file>>

\* ---- the script is run again (lines 61-62) ----------------------------------
Restart ==
    /\ pc \in {"complete", "done", "aborted", "crashed"}
    /\ pc' = "start"
    /\ generated_proverbs' = <<>>
    /\ semaphore' = 0
    /\ tasks' = <<>>
    /\ pbar' = 0
    /\ requests' = 0
    /\ flushes' = <<>>
    /\ start_file' = file
    /\ UNCHANGED <<config, file>>

\* ---- specification -----------------------------------------------------------
\* the files a run can find: none, one an earlier run wrote, one an earlier
\* run was killed while writing
StartFiles(texts, maxlen) ==
    {AbsentFile, CorruptFile}
    \cup {JsonFile(q) : q \in UNION {ListsOf(s) :
              s \in {u \in SUBSET texts : Cardinality(u) <= maxlen}}}

ProcessStart(f) ==
    /\ file = f
    /\ start_file = f
    /\ pc = "start"
    /\ generated_proverbs = <<>>
    /\ semaphore = 0
    /\ tasks = <<>>
    /\ pbar = 0
    /\ requests = 0
    /\ flushes = <<>>

Init ==
    /\ T \in 1..MaxT
    /\ C \in 1..MaxC
    /\ S \in 1..MaxS
    /\ vocab = Items
    /\ \E f \in StartFiles(Items, MaxT) : ProcessStart(f)

Next ==
    \/ Startup
    \/ \E t \in DOMAIN tasks : Admit(t)
    \/ \E t \in DOMAIN tasks : \E r \in Responses(vocab) : FetchSuccess(t, r)
    \/ \E t \in DOMAIN tasks : \E r \in Responses(vocab) : FetchFail(t, r)
    \/ Finish
    \/ CrashWhileAwaiting
    \/ \E t \in DOMAIN tasks : \E r \in Responses(vocab) : CrashInSave(t, r)
    \/ CrashInFinalSave
    \/ Restart

Spec == Init /\ [][Next]_vars

\* ---- properties --------------------------------------------------------------
InFlight == Cardinality({t \in DOMAIN tasks : tasks[t] = "inflight"})

Waiting == Cardinality({t \in DOMAIN tasks : tasks[t] = "waiting"})

Failed == Cardinality({t \in DOMAIN tasks : tasks[t] = "none"})

AllResolved == \A t \in DOMAIN tasks : tasks[t] \in {"returned", "none"}

\* number of items the checkpoint held when the process started
StartCount == Len(start_file.data)

Last(q) == q[Len(q)]

\* C1 Bounded concurrency: at most C remote calls are in flight in every
\* reachable state, and every call in flight holds one of the C slots of the
\* semaphore (the free slots and the calls in flight add up to C).
BoundedConcurrency ==
    /\ InFlight <= C
    /\ semaphore >= 0
    /\ pc # "start" => InFlight + semaphore = C

BoundedConcurrencyWitness ==
    /\ C = 2
    /\ InFlight = C
    /\ Waiting >= 1

\* C2 Resume correctness: a run that starts on a checkpoint of k < T items
\* seeds generated_proverbs with those k items and schedules exactly T - k
\* fetches; each admitted fetch issued exactly one request, so never more than
\* T - k requests, and exactly T - k once none is waiting.
ResumeCorrectness ==
    (start_file.kind = "json" /\ StartCount < T /\ pc # "start") =>
        /\ Len(tasks) = T - StartCount
        /\ Len(generated_proverbs) >= StartCount
        /\ SubSeq(generated_proverbs, 1, StartCount) = start_file.data
        /\ requests = Len(tasks) - Waiting
        /\ requests <= T - StartCount
        /\ Waiting = 0 => requests = T - StartCount

ResumeCorrectnessWitness ==
    /\ start_file.kind = "json"
    /\ StartCount >= 1
    /\ StartCount + 2 <= T
    /\ pc = "done"
    /\ requests = T - StartCount

\* C3 No-op when complete: a run that starts on a checkpoint of T or more
\* items issues no request, saves nothing and ends with the file as it was.
NoOpWhenComplete ==
    (start_file.kind = "json" /\ StartCount >= T /\ pc # "start") =>
        /\ pc = "complete"
        /\ tasks = <<>>
        /\ requests = 0
        /\ flushes = <<>>
        /\ file = start_file

NoOpWhenCompleteWitness ==
    /\ pc = "complete"
    /\ start_file.kind = "json"
    /\ StartCount = T
    /\ T >= 2

\* C4 Partial failure tolerance: when the run has ended and f of the scheduled
\* requests failed, generated_proverbs has the start-up items plus one entry
\* per request that did not fail, the last save_progress() is the final one
\* and covers the whole list; failed requests never abort the run.
PartialFailureTolerance ==
    /\ pc = "done" =>
          /\ AllResolved
          /\ Len(generated_proverbs) = StartCount + (Len(tasks) - Failed)
          /\ flushes # <<>>
          /\ Last(flushes).final
          /\ Last(flushes).len = Len(generated_proverbs)
    /\ pc = "aborted" => requests = 0

PartialFailureToleranceWitness ==
    /\ pc = "done"
    /\ Len(tasks) = 3
    /\ Failed = 1
    /\ tasks[2] = "none"

Periodic == {i \in DOMAIN flushes : ~flushes[i].final}

\* C5 as stated: a save_progress() inside a fetch happens exactly when the
\* number of successful completions of this run reaches a multiple of S.
FlushEveryInterval ==
    pc \in {"gather", "done"} =>
        /\ \A i \in Periodic : flushes[i].done % S = 0
        /\ \A n \in 1..pbar :
             n % S = 0 => \E i \in Periodic : flushes[i].done = n

\* C5 as amended: a save_progress() inside a fetch happens exactly when the
\* length of generated_proverbs, the items loaded at start-up included,
\* reaches a multiple of S.
FlushAtListLength ==
    pc \in {"gather", "done"} =>
        /\ Len(generated_proverbs) = StartCount + pbar
        /\ \A i \in Periodic :
             /\ flushes[i].len % S = 0
             /\ flushes[i].len = StartCount + flushes[i].done
        /\ \A n \in 1..pbar :
             (StartCount + n) % S = 0 =>
                 \E i \in Periodic : flushes[i].done = n

FlushAtListLengthWitness ==
    /\ pc = "done"
    /\ StartCount % S # 0
    /\ pbar = 2
    /\ \E i \in Periodic : flushes[i].done % S # 0

IsPrefixSet(items, list) ==
    \E n \in 0..Len(list) : items = {list[i] : i \in 1..n}

\* C6 Checkpoint validity: once the run has loaded its checkpoint, in every
\* state (a crash at any point included) the file, when present, holds a
\* duplicate-free list whose items are the distinct items of a prefix of
\* generated_proverbs.
CheckpointValid ==
    pc \in {"gather", "complete", "done", "crashed"} =>
        \/ file.kind = "absent"
        \/ /\ file.kind = "json"
           /\ \A i, j \in 1..Len(file.data) :
                i # j => file.data[i] # file.data[j]
           /\ IsPrefixSet({file.data[i] : i \in 1..Len(file.data)},
                          generated_proverbs)

\* C7 Final flush: when a run that scheduled fetches has ended, the file holds
\* exactly the distinct items of generated_proverbs, which is the start-up
\* list followed by one item per successful fetch.
FinalFlush ==
    pc = "done" =>
        /\ file.kind = "json"
        /\ {file.data[i] : i \in 1..Len(file.data)}
             = {generated_proverbs[i] : i \in 1..Len(generated_proverbs)}
        /\ Len(generated_proverbs) = StartCount + pbar
        /\ SubSeq(generated_proverbs, 1, StartCount) = start_file.data

FinalFlushWitness ==
    /\ pc = "done"
    /\ S = 2
    /\ Len(generated_proverbs) = 3
    /\ pbar = 2
    /\ Last(flushes).len # flushes[Len(flushes) - 1].len

\* ---- the scenario T=5, C=2, S=2 without a checkpoint -------------------------
InitScenario ==
    /\ T = 5
    /\ C = 2
    /\ S = 2
    /\ vocab = {"a", "b", "c", "d"}
    /\ ProcessStart(AbsentFile)

SpecScenario == InitScenario /\ [][Next]_vars

ScenarioResults == <<"a", "b", "a", "c", "d">>

FileItems == {file.data[i] : i \in 1..Len(file.data)}

\* C8 Concrete scenario: T=5, C=2, S=2, no checkpoint, every request succeeds
\* and the results complete in the order a, b, a, c, d.  The file holds {a, b}
\* right after the 2nd completion and {a, b, c} right after the 4th, and when
\* the run has ended it holds exactly the 4 items a, b, c, d, after two
\* periodic saves (at the 2nd and 4th completion) and the final one.
ConcreteScenario ==
    (/\ start_file.kind = "absent"
     /\ pc \in {"gather", "done"}
     /\ Failed = 0
     /\ Len(generated_proverbs) >= 2
     /\ generated_proverbs
          = SubSeq(ScenarioResults, 1, Len(generated_proverbs))) =>
        /\ file.kind = "json"
        /\ Len(generated_proverbs) \in {2, 3} =>
             /\ FileItems = {"a", "b"}
             /\ Len(flushes) = 1
        /\ Len(generated_proverbs) >= 2 =>
             /\ ~flushes[1].final
             /\ flushes[1].done = 2
             /\ flushes[1].items = {"a", "b"}
        /\ (Len(generated_proverbs) \in {4, 5} /\ pc = "gather") =>
             /\ FileItems = {"a", "b", "c"}
             /\ Len(flushes) = 2
        /\ Len(generated_proverbs) >= 4 =>
             /\ ~flushes[2].final
             /\ flushes[2].done = 4
             /\ flushes[2].items = {"a", "b", "c"}
        /\ pc = "done" =>
             /\ Len(generated_proverbs) = 5
             /\ FileItems = {"a", "b", "c", "d"}
             /\ Len(file.data) = 4
             /\ Len(flushes) = 3
             /\ flushes[3].final

ConcreteScenarioWitness ==
    /\ start_file.kind = "absent"
    /\ pc = "done"
    /\ Failed = 0
    /\ generated_proverbs = ScenarioResults

\* C9 Idempotent dedup: two save_progress() calls in a row with no append in
\* between write the same set of items, and every save writes a duplicate-free
\* list of exactly the distinct items generated_proverbs had at that moment.
IdempotentDedup ==
    /\ \A i \in DOMAIN flushes :
         /\ flushes[i].count = Cardinality(flushes[i].items)
         /\ flushes[i].len <= Len(generated_proverbs)
         /\ flushes[i].items
              = {generated_proverbs[n] : n \in 1..flushes[i].len}
    /\ \A i \in 1..(Len(flushes) - 1) :
         flushes[i].len = flushes[i + 1].len =>
             flushes[i].items = flushes[i + 1].items

IdempotentDedupWitness ==
    /\ Len(flushes) >= 2
    /\ flushes[Len(flushes) - 1].len = Last(flushes).len
    /\ Last(flushes).count < Last(flushes).len

\* C10 Flush monotonicity: every save writes a superset of the items of the
\* save before it, the first save writes a superset of the checkpoint loaded
\* at start-up, and no step of a running process removes an item from the file.
FlushMonotonic ==
    /\ [](/\ \A i \in 1..(Len(flushes) - 1) :
               flushes[i].items \subseteq flushes[i + 1].items
          /\ flushes # <<>> =>
               {start_file.data[i] : i \in 1..StartCount}
                   \subseteq flushes[1].items)
    /\ [][pc' # "crashed" =>
            FileItems \subseteq {file'.data[i] : i \in 1..Len(file'.data)}]_vars

FlushMonotonicWitness ==
    /\ StartCount >= 1
    /\ Len(flushes) >= 2
    /\ flushes[1].items # flushes[2].items
    /\ flushes[1].items # {start_file.data[i] : i \in 1..StartCount}

\* C11 Failure is a silent drop: the step in which a fetch in flight ends with
\* None changes neither generated_proverbs, nor the progress counter, nor the
\* file, issues no request, frees one semaphore slot, leaves main() and every
\* other fetch where they were; and a fetch that returned None is never
\* admitted again by the same process.
FailureIsSilentDrop ==
    [][\A t \in DOMAIN tasks :
         /\ (tasks[t] = "inflight" /\ pc' = "gather" /\ tasks'[t] = "none") =>
              /\ generated_proverbs' = generated_proverbs
              /\ pbar' = pbar
              /\ file' = file
              /\ flushes' = flushes
              /\ requests' = requests
              /\ semaphore' = semaphore + 1
              /\ semaphore' >= 1
              /\ DOMAIN tasks' = DOMAIN tasks
              /\ \A u \in DOMAIN tasks : u # t => tasks'[u] = tasks[u]
         /\ (tasks[t] = "none" /\ pc' # "start") =>
              /\ t \in DOMAIN tasks'
              /\ tasks'[t] = "none"]_vars

FailureIsSilentDropWitness ==
    /\ pc = "gather"
    /\ C = 1
    /\ Failed = 1
    /\ Waiting >= 1
    /\ InFlight = 0
    /\ semaphore = 1
    /\ generated_proverbs # <<>>

\* C12 Atomic completion step: a step of a running process that appends an
\* item also counts it, changes exactly one fetch and, when the new length is
\* a multiple of S, has saved the new list; so between steps, once an item was
\* appended in this run and the length is a multiple of S, the file holds
\* exactly the distinct items of generated_proverbs.
AtomicCompletion ==
    /\ []((pc \in {"gather", "done"} /\ pbar >= 1
             /\ Len(generated_proverbs) % S = 0) =>
            /\ file.kind = "json"
            /\ FileItems = {generated_proverbs[i] :
                               i \in 1..Len(generated_proverbs)})
    /\ [][(pc = "gather" /\ pc' = "gather"
             /\ generated_proverbs' # generated_proverbs) =>
            /\ pbar' = pbar + 1
            /\ Cardinality({t \in DOMAIN tasks : tasks'[t] # tasks[t]}) = 1
            /\ \A t \in DOMAIN tasks :
                 tasks'[t] # tasks[t] =>
                     tasks[t] = "inflight" /\ tasks'[t] = "returned"
            /\ IF Len(generated_proverbs') % S = 0
                 THEN /\ Len(flushes') = Len(flushes) + 1
                      /\ flushes'[Len(flushes')].len = Len(generated_proverbs')
                 ELSE flushes' = flushes /\ file' = file]_vars

AtomicCompletionWitness ==
    /\ pc = "gather"
    /\ S = 2
    /\ StartCount = 1
    /\ pbar = 1
    /\ Len(generated_proverbs) = 2
    /\ InFlight >= 1
    /\ file # start_file

\* ---- a run that is not killed, whose remote calls all resolve -----------------
NextLive ==
    \/ Startup
    \/ \E t \in DOMAIN tasks : Admit(t)
    \/ \E t \in DOMAIN tasks : \E r \in Responses(vocab) : FetchSuccess(t, r)
    \/ \E t \in DOMAIN tasks : \E r \in Responses(vocab) : FetchFail(t, r)
    \/ Finish

\* the event loop runs every coroutine that can run, and a remote call in
\* flight resolves, with a text or with a failure
Resolve ==
    \E t \in DOMAIN tasks : \E r \in Responses(vocab) :
        FetchSuccess(t, r) \/ FetchFail(t, r)

\* termination does not depend on the texts: two of them give it repeated
\* and distinct results
InitLive ==
    /\ T \in 1..MaxT
    /\ C \in 1..MaxC
    /\ S \in 1..MaxS
    /\ vocab = {AllItems[1], AllItems[2]}
    /\ \E f \in StartFiles(vocab, MaxT) : ProcessStart(f)

SpecLive ==
    /\ InitLive
    /\ [][NextLive]_vars
    /\ WF_vars(Startup)
    /\ WF_vars(\E t \in DOMAIN tasks : Admit(t))
    /\ WF_vars(Resolve)
    /\ WF_vars(Finish)

FinalFlushDone == flushes # <<>> /\ flushes[Len(flushes)].final

\* C13 Termination: when every remote call resolves, a run that scheduled
\* fetches leads to the state where every fetch was admitted and has returned
\* and the final save is done, whatever T, C, S and the failures; and the
\* final save is never done while a fetch is still waiting or in flight, a
\* call in flight holding its slot all the while.
Termination ==
    /\ (pc = "gather") ~>
          (/\ pc = "done"
           /\ \A t \in DOMAIN tasks : tasks[t] \in {"returned", "none"}
           /\ requests = Len(tasks)
           /\ FinalFlushDone)
    /\ [](FinalFlushDone =>
            \A t \in DOMAIN tasks : tasks[t] \in {"returned", "none"})
    /\ [](pc = "gather" => semaphore = C - InFlight)
    /\ [][pc = "gather" /\ (InFlight >= 1 \/ Waiting >= 1) =>
            ~FinalFlushDone']_vars

TerminationWitness ==
    /\ pc = "done"
    /\ C = 1
    /\ Len(tasks) = 3
    /\ Failed = 2
    /\ tasks[3] = "returned"
    /\ FinalFlushDone

\* C14 Start-up load: without a checkpoint file the run starts from an empty
\* list and schedules T fetches; with a file json.load cannot parse, main()
\* ends with the error before any fetch is scheduled, no request is issued and
\* the file is left as it was.
StartupLoad ==
    /\ (start_file.kind = "absent" /\ pc # "start") =>
          /\ pc \in {"gather", "done", "crashed"}
          /\ Len(tasks) = T
          /\ Len(generated_proverbs) = pbar
          /\ requests = T - Waiting
    /\ (start_file.kind = "corrupt" /\ pc # "start") =>
          /\ pc = "aborted"
          /\ tasks = <<>>
          /\ generated_proverbs = <<>>
          /\ requests = 0
          /\ pbar = 0
          /\ flushes = <<>>
          /\ file = start_file

StartupLoadWitness ==
    /\ start_file.kind = "corrupt"
    /\ pc = "aborted"
    /\ T >= 2

\* C15 Append-only: after start-up every step of the process leaves
\* generated_proverbs unchanged or appends one item at its end; a step that
\* saves leaves in memory the list the save has seen, duplicates included.
AppendOnly ==
    [][(pc # "start" /\ pc' # "start") =>
         /\ \/ generated_proverbs' = generated_proverbs
            \/ /\ Len(generated_proverbs') = Len(generated_proverbs) + 1
               /\ SubSeq(generated_proverbs', 1, Len(generated_proverbs))
                    = generated_proverbs
         /\ Len(flushes') > Len(flushes) =>
              /\ flushes'[Len(flushes')].len = Len(generated_proverbs')
              /\ flushes'[Len(flushes')].items
                   = {generated_proverbs'[i] :
                         i \in 1..Len(generated_proverbs')}]_vars

AppendOnlyWitness ==
    /\ pc = "gather"
    /\ flushes # <<>>
    /\ Len(generated_proverbs) = 2
    /\ generated_proverbs[1] = generated_proverbs[2]
    /\ flushes[Len(flushes)].len = 2
    /\ flushes[Len(flushes)].count = 1

Returned == Cardinality({t \in DOMAIN tasks : tasks[t] = "returned"})

\* C16 Progress reporting counts successes: between the steps of a running
\* process the progress counter equals the number of fetches that returned a
\* text and the number of items appended in this run; a failed fetch adds
\* nothing to it.  Whatever the counter, a waiting fetch can be admitted as
\* soon as a slot is free and a periodic save happens at the list lengths that
\* are multiples of S.
ProgressCountsSuccesses ==
    pc \in {"gather", "done"} =>
        /\ pbar = Returned
        /\ pbar = Len(generated_proverbs) - StartCount
        /\ pbar + Failed + InFlight + Waiting = Len(tasks)
        /\ (pc = "gather" /\ Waiting >= 1 /\ semaphore >= 1) =>
               ENABLED (\E t \in DOMAIN tasks : Admit(t))
        /\ \A i \in DOMAIN flushes :
               flushes[i].final \/ flushes[i].len % S = 0

ProgressCountsSuccessesWitness ==
    /\ pc = "done"
    /\ Failed = 2
    /\ pbar = 1
    /\ StartCount = 0

\* C17 Upper bound on output: in a run started with k < T items the list
\* never grows beyond T, at most T - k requests are issued, the file never
\* holds more than T items, and when the run has ended the list has T items
\* exactly when no request failed.
UpperBound ==
    (start_file.kind # "corrupt" /\ StartCount < T /\ pc # "start") =>
        /\ Len(generated_proverbs) <= T
        /\ requests <= T - StartCount
        /\ Len(file.data) <= T
        /\ pc = "done" =>
             /\ Len(generated_proverbs) = T <=> Failed = 0
             /\ file.kind = "json"

\* a run without any failure that ends with fewer than T distinct items
UpperBoundWitness ==
    /\ pc = "done"
    /\ StartCount = 1
    /\ T = 3
    /\ Failed = 0
    /\ Len(generated_proverbs) = T
    /\ Len(file.data) < T

\* C18 Cross-run monotonicity: over runs that end normally or are killed at
\* any point, no step removes an item from the file, and every run schedules
\* T minus the number of items the file held when it started, or nothing when
\* that number is at least T.
CrossRunMonotonic ==
    /\ [][FileItems \subseteq {file'.data[i] : i \in 1..Len(file'.data)}]_vars
    /\ []((pc \in {"gather", "done", "crashed"} /\ start_file.kind = "json") =>
            Len(tasks) = T - StartCount)
    /\ []((pc = "complete") => (tasks = <<>> /\ StartCount >= T))

====
